---- MODULE Spec2Model ----
(***************************************************************************)
(* Model of opennmt/utils/data.py: the tf.data transformations that build  *)
(* the training and inference input pipelines.                             *)
(*                                                                         *)
(* A dataset is a finite sequence of examples.  The elements that flow     *)
(* through a pipeline are positions in the base dataset `source` (so that  *)
(* two examples with equal contents stay distinguishable); an element's    *)
(* contents are looked up in `source`.                                     *)
(***************************************************************************)
EXTENDS Integers, Sequences, FiniteSets, TLC

VARIABLES
  cfg,      \* the arguments the transformation was called with
  source,   \* the base dataset
  pc,       \* control point of the pipeline
  err,      \* the exception raised, "" when none
  stream,   \* what the stages before the batcher deliver in this pass
  pos,      \* number of elements read from the base dataset / stream
  buffer,   \* the shuffle buffer
  windows,  \* group_by_window: bucket key -> queued elements
  emitted,  \* what the transformation has output so far
  prev,     \* batch sizes of the previous pass (repeat), <<>> before it
  peeks     \* number of _get_output_shapes samples taken (dataset.take(1))

vars == <<cfg, source, pc, err, stream, pos, buffer, windows, emitted, prev, peeks>>

----------------------------------------------------------------------------
(* Bounds of the model. *)

\* Largest sequence length of an example.
MaxLength == 2
\* Number of elements fed to filter_examples_by_length.
MaxFilterInput == 1
\* Largest dataset_size given to random_shard.
MaxDatasetSize == 5
\* Number of elements fed to batch_parallel_dataset.
MaxBatchInput == 3
\* Largest batch_size given to the pipelines.
MaxBatchSize == 3
\* Number of elements the inference pipeline reads.
MaxInferenceInput == 4
\* Largest batch_size given to the training pipeline.
MaxTrainingBatchSize == 2
\* Largest training dataset when the batching arguments vary.
MaxBatchingSource == 3
\* Largest training dataset when the reading arguments vary.
MaxReadingSource == 5
\* Largest training dataset under the consumer that keeps asking.
MaxLiveSource == 2
\* Largest divisor given to filter_irregular_batches.
MaxMultiple == 3
\* Largest batch and number of batches fed to filter_irregular_batches.
MaxIrregularSize == 4
MaxIrregularInput == 4
\* Largest batch_size and bucket key given to _window_size_func.
MaxWindowBatchSize == 6
MaxKey == 3
\* Largest batch_size and number of elements given to batch_dataset.
MaxPadBatchSize == 3
MaxPadInput == 3

----------------------------------------------------------------------------
(* Python values: None, an int, a list.  The tag comes first so that two   *)
(* values of different kinds compare unequal.                              *)

None == <<"None">>
PyInt(n) == <<"int", n>>
PyList(s) == <<"list", s>>
isinstance_list(v) == v[1] = "list"

Min(a, b) == IF a <= b THEN a ELSE b
Max(a, b) == IF a >= b THEN a ELSE b

\* i // j of Python and tf.floordiv for j > 0.
FloorDiv(i, j) == i \div j

RECURSIVE Flatten(_)
Flatten(ss) == IF ss = <<>> THEN <<>> ELSE Head(ss) \o Flatten(Tail(ss))

InSeq(x, s) == \E i \in DOMAIN s : s[i] = x
Count(x, s) == Cardinality({i \in DOMAIN s : s[i] = x})
reduce_all(conds) == \A i \in DOMAIN conds : conds[i]

----------------------------------------------------------------------------
(* Examples and length functions.  A parallel example has one token count  *)
(* per source sequence (one or two sources) and a label token count.  A    *)
(* length function is supplied by the caller: "scalar" returns the length  *)
(* of the (first) sequence, "list" one length per source.                  *)

LengthFn(kind) == <<"fn", kind>>

CallLengthFn(fn, seqs) ==
  IF fn = LengthFn("list")
    THEN PyList([i \in DOMAIN seqs |-> PyInt(seqs[i])])
    ELSE PyInt(seqs[1])

Lengths == 0..MaxLength
Features == {<<a>> : a \in Lengths} \cup {<<a, b>> : a \in Lengths, b \in Lengths}
Examples == [features : Features, labels : Lengths]

----------------------------------------------------------------------------
(* filter_examples_by_length *)

\* The list `maximum_length` is after "maximum_length += [None] * (...)".
PaddedMaximum(length, maximum_length) ==
  LET l == IF isinstance_list(length) THEN length[2] ELSE <<length>>
      m == IF isinstance_list(maximum_length) THEN maximum_length[2]
                                               ELSE <<maximum_length>>
  IN  m \o [i \in 1..(Len(l) - Len(m)) |-> None]

_length_constraints_no_minimum(length, maximum_length) ==
  LET l == IF isinstance_list(length) THEN length[2] ELSE <<length>>
      m == PaddedMaximum(length, maximum_length)
      one(i) == IF m[i] # None THEN <<l[i][2] <= m[i][2]>> ELSE <<>>
  IN  Flatten([i \in 1..Min(Len(l), Len(m)) |-> one(i)])

_length_constraints(length, maximum_length) ==
  LET l == IF isinstance_list(length) THEN length[2] ELSE <<length>>
      m == PaddedMaximum(length, maximum_length)
      one(i) == <<l[i][2] > 0>>
                \o (IF m[i] # None THEN <<l[i][2] <= m[i][2]>> ELSE <<>>)
  IN  Flatten([i \in 1..Min(Len(l), Len(m)) |-> one(i)])

\* _predicate of filter_examples_by_length, under the arguments c.
filter_examples_by_length_predicate(c, e) ==
  LET features_length == IF c.features_length_fn # None
                           THEN CallLengthFn(c.features_length_fn, e.features)
                           ELSE None
      labels_length == IF c.labels_length_fn # None
                         THEN CallLengthFn(c.labels_length_fn, <<e.labels>>)
                         ELSE None
      cond == (IF features_length # None
                 THEN _length_constraints(features_length, c.maximum_features_length)
                 ELSE <<>>)
              \o (IF labels_length # None
                    THEN _length_constraints(labels_length, c.maximum_labels_length)
                    ELSE <<>>)
  IN  reduce_all(cond)

\* Whether the transformation keeps e: the identity when no length function
\* is set, dataset.filter(_predicate) otherwise.
filter_examples_by_length(c, e) ==
  IF c.features_length_fn = None /\ c.labels_length_fn = None
    THEN TRUE
    ELSE filter_examples_by_length_predicate(c, e)

\* The caller's maxima after _predicate ran on e: a maximum given as a list
\* is extended in place.
MaximaAfter(c, e) ==
  LET grow(fn, seqs, m) ==
        IF fn # None /\ isinstance_list(m)
          THEN PyList(PaddedMaximum(CallLengthFn(fn, seqs), m))
          ELSE m
  IN  IF c.features_length_fn = None /\ c.labels_length_fn = None
        THEN c
        ELSE [c EXCEPT
               !.maximum_features_length =
                  grow(c.features_length_fn, e.features, @),
               !.maximum_labels_length =
                  grow(c.labels_length_fn, <<e.labels>>, @)]

Maxima == {None} \cup {PyInt(n) : n \in 1..MaxLength}
MaximaLists == {PyList(<<a>>) : a \in Maxima}
               \cup {PyList(<<PyInt(1), a>>) : a \in Maxima}
               \cup {PyList(<<PyInt(MaxLength), None, PyInt(1)>>)}

FilterConfigs ==
  [maximum_features_length : Maxima \cup MaximaLists,
   maximum_labels_length : Maxima,
   features_length_fn : {None, LengthFn("scalar"), LengthFn("list")},
   labels_length_fn : {None, LengthFn("scalar")}]

InitFilter ==
  /\ cfg \in FilterConfigs
  /\ source = <<>>
  /\ pc = "filter"
  /\ err = ""
  /\ stream = <<>>
  /\ pos = 0
  /\ buffer = <<>>
  /\ windows = <<>>
  /\ emitted = <<>>
  /\ prev = <<>>
  /\ peeks = 0

\* dataset.apply(filter_examples_by_length(...)) reads the next element.
FilterElement ==
  /\ pc = "filter"
  /\ Len(source) < MaxFilterInput
  /\ \E e \in Examples :
       /\ source' = Append(source, e)
       /\ pos' = pos + 1
       /\ emitted' = IF filter_examples_by_length(cfg, e)
                       THEN Append(emitted, pos + 1)
                       ELSE emitted
       /\ cfg' = MaximaAfter(cfg, e)
  /\ UNCHANGED <<pc, err, stream, buffer, windows, prev, peeks>>

NextFilter == FilterElement

SpecFilter == InitFilter /\ [][NextFilter]_vars

\* The lengths the filter observes on one side, one per source.
Observed(fn, seqs) ==
  IF fn = None THEN <<>>
  ELSE IF fn = LengthFn("list") THEN seqs
  ELSE <<seqs[1]>>

\* The maximum configured for the i-th length of a side, None when unset.
MaximumAt(m, i) ==
  IF isinstance_list(m)
    THEN (IF i <= Len(m[2]) THEN m[2][i] ELSE None)
    ELSE (IF i = 1 THEN m ELSE None)

SideWithin(fn, seqs, m) ==
  \A i \in DOMAIN Observed(fn, seqs) :
     /\ Observed(fn, seqs)[i] > 0
     /\ MaximumAt(m, i) # None => Observed(fn, seqs)[i] <= MaximumAt(m, i)[2]

\* C3: filter_examples_by_length keeps an example iff every observed length
\* of every side whose length function is set is > 0 and <= the maximum at
\* the same position when that maximum is set; with both length functions
\* unset every example is kept.
C3_FilterKeepsIff ==
  pc = "filter" =>
    \A p \in DOMAIN source :
       InSeq(p, emitted) <=>
         /\ SideWithin(cfg.features_length_fn, source[p].features,
                       cfg.maximum_features_length)
         /\ SideWithin(cfg.labels_length_fn, <<source[p].labels>>,
                       cfg.maximum_labels_length)

\* A multi-source example is kept under a list of maxima that is shorter
\* than the list of lengths, with the labels side constrained as well.
C3_Witness ==
  /\ pc = "filter"
  /\ cfg.features_length_fn = LengthFn("list")
  /\ cfg.labels_length_fn # None
  /\ cfg.maximum_features_length = PyList(<<PyInt(1), None>>)
  /\ cfg.maximum_labels_length = PyInt(1)
  /\ \E p \in DOMAIN source :
       /\ source[p].features = <<1, MaxLength>>
       /\ InSeq(p, emitted)

----------------------------------------------------------------------------
(* random_shard *)

CeilDiv(a, b) == -((-a) \div b)

\* np.linspace(0, dataset_size, num=num_shards, endpoint=False,
\* dtype=np.int64): the i-th offset (i from 0) is i * (dataset_size /
\* num_shards) truncated to an integer.  Within the bounds of this model the
\* floating-point product truncates to the exact quotient's floor.
linspace(dataset_size, num, i) == (i * dataset_size) \div num

random_shard_num_shards(shard_size, dataset_size) ==
  CeilDiv(dataset_size, shard_size)

random_shard_offsets(shard_size, dataset_size) ==
  LET num_shards == random_shard_num_shards(shard_size, dataset_size)
  IN  [i \in 1..num_shards |-> linspace(dataset_size, num_shards, i - 1)]

\* sharded_dataset.shuffle(num_shards): the buffer holds every offset, so
\* every order of the offsets can come out.
ShuffledOffsets(shard_size, dataset_size) ==
  LET offsets == random_shard_offsets(shard_size, dataset_size)
  IN  {[i \in DOMAIN offsets |-> offsets[p[i]]] :
         p \in Permutations(DOMAIN offsets)}

\* dataset.skip(offset).take(shard_size)
SkipTake(dataset, offset, shard_size) ==
  SubSeq(dataset, offset + 1, Min(offset + shard_size, Len(dataset)))

\* _random_shard(dataset) when the shuffled offsets come out as `order`.
random_shard(dataset, shard_size, order) ==
  Flatten([i \in DOMAIN order |-> SkipTake(dataset, order[i], shard_size)])

InitShard ==
  /\ cfg \in [shard_size : 1..MaxDatasetSize, dataset_size : 1..MaxDatasetSize]
  /\ source = [i \in 1..cfg.dataset_size |-> i - 1]
  /\ pc = "shard"
  /\ err = ""
  /\ stream = <<>>
  /\ pos = 0
  /\ buffer = <<>>
  /\ windows = <<>>
  /\ emitted = <<>>
  /\ prev = <<>>
  /\ peeks = 0

\* The shuffle of the offsets dataset settles the order of the shards.
ShardShuffle ==
  /\ pc = "shard"
  /\ stream' \in ShuffledOffsets(cfg.shard_size, cfg.dataset_size)
  /\ pc' = "flat_map"
  /\ UNCHANGED <<cfg, source, err, pos, buffer, windows, emitted, prev, peeks>>

\* flat_map: the next offset's shard is appended to the output.
ShardFlatMap ==
  /\ pc = "flat_map"
  /\ pos < Len(stream)
  /\ emitted' = emitted \o SkipTake(source, stream[pos + 1], cfg.shard_size)
  /\ pos' = pos + 1
  /\ UNCHANGED <<cfg, source, pc, err, stream, buffer, windows, prev, peeks>>

ShardEnd ==
  /\ pc = "flat_map"
  /\ pos = Len(stream)
  /\ pc' = "done"
  /\ UNCHANGED <<cfg, source, err, stream, pos, buffer, windows, emitted, prev, peeks>>

NextShard == ShardShuffle \/ ShardFlatMap \/ ShardEnd

SpecShard == InitShard /\ [][NextShard]_vars

\* The j-th contiguous run (j from 0) of length shard_size of [0..N-1].
ContiguousRun(j, shard_size, dataset_size) ==
  [i \in 1..Min(shard_size, dataset_size - j * shard_size) |->
     j * shard_size + i - 1]

\* C4: random_shard(S, N) over [0..N-1] outputs a permutation of [0..N-1]
\* made of ceil(N/S) contiguous runs of length S, only the last run in input
\* order being possibly shorter; for S = N the output is the input.
C4_ShardIsPermutationOfRuns ==
  pc = "done" =>
    LET S == cfg.shard_size
        N == cfg.dataset_size
        k == CeilDiv(N, S)
    IN  /\ \A v \in 0..(N - 1) : Count(v, emitted) = 1
        /\ Len(emitted) = N
        /\ \E p \in Permutations(1..k) :
             emitted = Flatten([i \in 1..k |-> ContiguousRun(p[i] - 1, S, N)])
        /\ S = N => emitted = source

----------------------------------------------------------------------------
(* batch_dataset, batch_parallel_dataset *)

\* No window is open.
NoWindows == [k \in {} |-> <<>>]

\* dataset.padded_batch(batch_size) over the finite dataset `elements`:
\* consecutive batches of batch_size elements, the last one shorter when the
\* elements do not fill it, none when there is no element.
RECURSIVE batch_dataset(_, _)
batch_dataset(batch_size, elements) ==
  IF elements = <<>> THEN <<>>
  ELSE IF Len(elements) <= batch_size THEN <<elements>>
  ELSE <<SubSeq(elements, 1, batch_size)>>
       \o batch_dataset(batch_size, SubSeq(elements, batch_size + 1, Len(elements)))

\* batch_size = batch_size * batch_multiplier
ScaledBatchSize(c) == c.batch_size * c.batch_multiplier

\* _key_func of batch_parallel_dataset (the bucket id is an int >= 0).
_key_func_features_only(c, e) ==
  LET fl == IF c.features_length_fn # None
              THEN CallLengthFn(c.features_length_fn, e.features) ELSE None
      features_length == IF isinstance_list(fl) THEN None ELSE fl
  IN  IF features_length # None
        THEN Max(0, FloorDiv(features_length[2], c.bucket_width[2]))
        ELSE 0

_key_func(c, e) ==
  LET fl == IF c.features_length_fn # None
              THEN CallLengthFn(c.features_length_fn, e.features) ELSE None
      labels_length == IF c.labels_length_fn # None
                         THEN CallLengthFn(c.labels_length_fn, <<e.labels>>) ELSE None
      features_length == IF isinstance_list(fl) THEN None ELSE fl
      id0 == 0
      id1 == IF features_length # None
               THEN Max(id0, FloorDiv(features_length[2], c.bucket_width[2]))
               ELSE id0
      id2 == IF labels_length # None
               THEN Max(id1, FloorDiv(labels_length[2], c.bucket_width[2]))
               ELSE id1
  IN  id2

\* The integer division by zero of _window_size_func.
DivisionByZero == <<"InvalidArgumentError">>

\* _window_size_func of batch_parallel_dataset.
_window_size_func_key_not_shifted(c, key) ==
  LET size == FloorDiv(ScaledBatchSize(c), key * c.bucket_width[2])
      required_multiple == c.batch_multiplier * c.batch_size_multiple
      size1 == IF required_multiple > 1
                 THEN size + required_multiple - (size % required_multiple)
                 ELSE size
  IN  IF key * c.bucket_width[2] = 0
        THEN DivisionByZero
        ELSE PyInt(Max(size1, required_multiple))

_window_size_func_width_dropped(c, key) ==
  LET key1 == IF c.bucket_width[2] > 1 THEN key + 1 ELSE key
      size == FloorDiv(ScaledBatchSize(c), key1)
      required_multiple == c.batch_multiplier * c.batch_size_multiple
      size1 == IF required_multiple > 1
                 THEN size + required_multiple - (size % required_multiple)
                 ELSE size
  IN  IF key1 = 0
        THEN DivisionByZero
        ELSE PyInt(Max(size1, required_multiple))

_window_size_func(c, key) ==
  LET key1 == IF c.bucket_width[2] > 1 THEN key + 1 ELSE key
      size == FloorDiv(ScaledBatchSize(c), key1 * c.bucket_width[2])
      required_multiple == c.batch_multiplier * c.batch_size_multiple
      size1 == IF required_multiple > 1
                 THEN size + required_multiple - (size % required_multiple)
                 ELSE size
  IN  IF key1 * c.bucket_width[2] = 0
        THEN DivisionByZero
        ELSE PyInt(Max(size1, required_multiple))

\* The window size group_by_window uses for `key`: window_size=batch_size in
\* "examples" mode, window_size_func in "tokens" mode.
WindowSize(c, key) ==
  IF c.batch_type = "examples" THEN PyInt(ScaledBatchSize(c))
                               ELSE _window_size_func(c, key)

\* tf.data.experimental.group_by_window on one more element x of key `key`:
\* x joins the window of its key; a window that reaches window_size is
\* handed to reduce_func (batch_dataset(batch_size)) and closed.
group_by_window(w, key, x, window_size, batch_size) ==
  LET q == (IF key \in DOMAIN w THEN w[key] ELSE <<>>) \o <<x>>
  IN  IF Len(q) >= window_size
        THEN [windows |-> [k \in DOMAIN w \ {key} |-> w[k]],
              out |-> batch_dataset(batch_size, q)]
        ELSE [windows |-> [k \in DOMAIN w \cup {key} |-> IF k = key THEN q ELSE w[k]],
              out |-> <<>>]

\* At the end of the input the window of `key` is handed to reduce_func.
group_by_window_flush(w, key, batch_size) ==
  [windows |-> [k \in DOMAIN w \ {key} |-> w[k]],
   out |-> batch_dataset(batch_size, w[key])]

\* Whether calling batch_parallel_dataset(...) raises ValueError.
batch_parallel_dataset_raises(c) ==
  /\ c.bucket_width # None
  /\ c.batch_type # "examples"
  /\ c.batch_type # "tokens"

\* The transformation batch_parallel_dataset returns, on one more element x
\* with contents e: the new windows, the batches that come out, and the
\* error of the window size computation if any.
batch_parallel_dataset(c, w, x, e) ==
  IF c.bucket_width = None
    THEN \* batch_dataset: one open batch, the window of key 0
         group_by_window(w, 0, x, ScaledBatchSize(c), ScaledBatchSize(c))
           @@ [error |-> ""]
    ELSE LET key == _key_func(c, e)
             window_size == WindowSize(c, key)
         IN  IF window_size = DivisionByZero
               THEN [windows |-> w, out |-> <<>>, error |-> DivisionByZero[1]]
               ELSE group_by_window(w, key, x, window_size[2], ScaledBatchSize(c))
                      @@ [error |-> ""]

\* The lengths of the examples given to batch_parallel_dataset: both sides
\* of the bucket boundaries of widths 1 and 5.
BatchLengths == {0, 4, 5, 6}
BatchExamples == [features : {<<a>> : a \in BatchLengths}, labels : {0, 5}]

BatchConfigs ==
  [batch_size : {1, 2, 10},
   batch_type : {"examples", "tokens", "sentences"},
   batch_multiplier : {1, 2},
   batch_size_multiple : {1, 2},
   bucket_width : {None, PyInt(1), PyInt(5)},
   features_length_fn : {None, LengthFn("scalar"), LengthFn("list")},
   labels_length_fn : {None, LengthFn("scalar")}]

InitBatch ==
  /\ cfg \in BatchConfigs
  /\ source = <<>>
  /\ pc = "build"
  /\ err = ""
  /\ stream = <<>>
  /\ pos = 0
  /\ buffer = <<>>
  /\ windows = NoWindows
  /\ emitted = <<>>
  /\ prev = <<>>
  /\ peeks = 0

\* batch_parallel_dataset(...) is called and raises ValueError.
BatchBuildError ==
  /\ pc = "build"
  /\ batch_parallel_dataset_raises(cfg)
  /\ pc' = "error"
  /\ err' = "ValueError"
  /\ UNCHANGED <<cfg, source, stream, pos, buffer, windows, emitted, prev, peeks>>

\* batch_parallel_dataset(...) is called and returns a transformation.
BatchBuild ==
  /\ pc = "build"
  /\ ~batch_parallel_dataset_raises(cfg)
  /\ pc' = "run"
  /\ UNCHANGED <<cfg, source, err, stream, pos, buffer, windows, emitted, prev, peeks>>

\* The transformation reads the next element of its input.
BatchElement ==
  /\ pc = "run"
  /\ Len(source) < MaxBatchInput
  /\ \E e \in BatchExamples :
       LET r == batch_parallel_dataset(cfg, windows, pos + 1, e)
       IN  /\ source' = Append(source, e)
           /\ pos' = pos + 1
           /\ windows' = r.windows
           /\ emitted' = emitted \o r.out
           /\ err' = r.error
           /\ pc' = IF r.error = "" THEN "run" ELSE "error"
  /\ UNCHANGED <<cfg, stream, buffer, prev, peeks>>

\* The input ends.
BatchEndOfInput ==
  /\ pc = "run"
  /\ pc' = "flush"
  /\ UNCHANGED <<cfg, source, err, stream, pos, buffer, windows, emitted, prev, peeks>>

\* After the end of the input an open window is reduced; the order over
\* the keys is the library's.
BatchFlush ==
  /\ pc = "flush"
  /\ \E key \in DOMAIN windows :
       LET r == group_by_window_flush(windows, key, ScaledBatchSize(cfg))
       IN  /\ windows' = r.windows
           /\ emitted' = emitted \o r.out
  /\ UNCHANGED <<cfg, source, pc, err, stream, pos, buffer, prev, peeks>>

BatchEnd ==
  /\ pc = "flush"
  /\ DOMAIN windows = {}
  /\ pc' = "done"
  /\ UNCHANGED <<cfg, source, err, stream, pos, buffer, windows, emitted, prev, peeks>>

NextBatch ==
  \/ BatchBuildError
  \/ BatchBuild
  \/ BatchElement
  \/ BatchEndOfInput
  \/ BatchFlush
  \/ BatchEnd

SpecBatch == InitBatch /\ [][NextBatch]_vars

\* C7: batch_parallel_dataset called with a batch_type other than
\* "examples" or "tokens" raises ValueError and returns no transformation,
\* whatever the other arguments, bucket_width unset included.
C7_UnknownBatchTypeRaises ==
  (pc # "build" /\ cfg.batch_type \notin {"examples", "tokens"}) =>
     (pc = "error" /\ err = "ValueError")

\* The length the docstring assigns to an example: the maximum of the
\* source and target lengths.
AssignedLength(e) == Max(e.features[1], e.labels)

\* The docstring's buckets of width 5: 1 - 5 | 6 - 10 | 11 - 15 | ...
DocumentedBucket(length) == (length - 1) \div 5

\* C9: with bucket_width = 5 sequences are organized by assigned length into
\* the buckets 1-5, 6-10, 11-15, ...: two examples share a batch only if
\* their assigned lengths lie in the same range (5 and 6 never do).
C9_DocumentedBucketsOfFive ==
  ( /\ cfg.bucket_width = PyInt(5)
    /\ cfg.features_length_fn = LengthFn("scalar")
    /\ cfg.labels_length_fn = LengthFn("scalar") ) =>
    \A i \in DOMAIN emitted : \A j1, j2 \in DOMAIN emitted[i] :
       LET l1 == AssignedLength(source[emitted[i][j1]])
           l2 == AssignedLength(source[emitted[i][j2]])
       IN  (l1 >= 1 /\ l2 >= 1) => DocumentedBucket(l1) = DocumentedBucket(l2)

\* The effective length of the claim: the largest of the features length
\* (when its function is set and returns no list) and the labels length
\* (when its function is set), 0 when there is none.
EffectiveLength(c, e) ==
  LET ls == (IF c.features_length_fn = LengthFn("scalar")
               THEN {e.features[1]} ELSE {})
            \cup (IF c.labels_length_fn # None THEN {e.labels} ELSE {})
  IN  IF ls = {} THEN 0 ELSE CHOOSE m \in ls : \A n \in ls : n <= m

\* C10: when bucket_width W is set, every emitted batch holds only examples
\* of one bucket key k = floor(E / W), i.e. with effective lengths E in the
\* same interval [k*W, (k+1)*W).
C10_BatchWithinOneBucket ==
  cfg.bucket_width # None =>
    \A i \in DOMAIN emitted :
       LET W == cfg.bucket_width[2]
           k == EffectiveLength(cfg, source[emitted[i][1]]) \div W
       IN  \A j \in DOMAIN emitted[i] :
              LET E == EffectiveLength(cfg, source[emitted[i][j]])
              IN  k * W <= E /\ E < (k + 1) * W

\* A batch of two examples of different effective lengths, one of them
\* placed by its labels length, after a batch of another bucket.
C10_Witness ==
  /\ cfg.bucket_width = PyInt(5)
  /\ cfg.features_length_fn = LengthFn("scalar")
  /\ cfg.labels_length_fn = LengthFn("scalar")
  /\ \E i, i0 \in DOMAIN emitted :
       /\ Len(emitted[i]) = 2
       /\ source[emitted[i][1]] = [features |-> <<4>>, labels |-> 5]
       /\ source[emitted[i][2]] = [features |-> <<6>>, labels |-> 0]
       /\ source[emitted[i0][1]] = [features |-> <<4>>, labels |-> 0]

\* The largest effective length among the examples of a batch.
LargestEffectiveLength(batch) ==
  LET ls == {EffectiveLength(cfg, source[batch[j]]) : j \in DOMAIN batch}
  IN  CHOOSE m \in ls : \A n \in ls : n <= m

\* The batcher is the bucketed one, in tokens mode, with no multiple asked.
PlainTokenBuckets ==
  /\ cfg.batch_type = "tokens"
  /\ cfg.bucket_width # None
  /\ cfg.batch_multiplier = 1
  /\ cfg.batch_size_multiple = 1

\* C13 as claimed: in tokens mode with batch_multiplier = 1 and
\* batch_size_multiple = 1 every batch of the bucketed batcher has (number
\* of examples) * (largest effective length in the batch) <= batch_size, for
\* every bucket and every input length.
C13_PaddedVolumeWithinBudget ==
  PlainTokenBuckets =>
    \A i \in DOMAIN emitted :
       Len(emitted[i]) * LargestEffectiveLength(emitted[i]) <= cfg.batch_size

\* C13 as amended: the padded volume is within the budget in every batch of
\* more than one example; an example too long for the budget is emitted in
\* a batch of its own.
C13_PaddedVolumeWithinBudgetUnlessAlone ==
  PlainTokenBuckets =>
    \A i \in DOMAIN emitted :
       \/ Len(emitted[i]) = 1
       \/ Len(emitted[i]) * LargestEffectiveLength(emitted[i]) <= cfg.batch_size

\* A batch of two examples fills the budget exactly, and an example longer
\* than what its bucket allows is emitted alone.
C13_Witness ==
  /\ PlainTokenBuckets
  /\ cfg.batch_size = 10
  /\ \E i1, i2 \in DOMAIN emitted :
       /\ Len(emitted[i1]) = 2
       /\ LargestEffectiveLength(emitted[i1]) = 5
       /\ Len(emitted[i2]) = 1
       /\ LargestEffectiveLength(emitted[i2]) = 6

\* The bucket key of the p-th element of the input.
KeyOf(p) == _key_func(cfg, source[p])

\* The elements of the emitted batches of bucket k, in emission order.
EmittedOfKey(k) == Flatten(SelectSeq(emitted, LAMBDA b : KeyOf(b[1]) = k))

\* The elements of the input of bucket k, in arrival order.
InputOfKey(k) == SelectSeq([p \in DOMAIN source |-> p], LAMBDA p : KeyOf(p) = k)

\* The elements queued for bucket k.
QueuedOfKey(k) == IF k \in DOMAIN windows THEN windows[k] ELSE <<>>

\* C16: in the bucketed batcher examples are queued per bucket key in
\* arrival order; a batch is emitted exactly when a key's queue reaches the
\* key's window size and holds exactly window-size examples, the oldest
\* queued ones of the key in arrival order, so that for each key the
\* emitted batches followed by the queue are the input of that key, in
\* examples mode and in tokens mode.
C16_WindowSizedFifoBatches ==
  ( /\ cfg.bucket_width # None
    /\ cfg.batch_type \in {"examples", "tokens"}
    /\ pc = "run" ) =>
     /\ \A k \in DOMAIN windows :
          /\ windows[k] # <<>>
          /\ Len(windows[k]) < WindowSize(cfg, k)[2]
     /\ \A i \in DOMAIN emitted :
          Len(emitted[i]) = WindowSize(cfg, KeyOf(emitted[i][1]))[2]
     /\ \A p \in DOMAIN source :
          EmittedOfKey(KeyOf(p)) \o QueuedOfKey(KeyOf(p)) = InputOfKey(KeyOf(p))

\* Every element of the input is in exactly one emitted batch.
NothingLostOrDuplicated ==
  /\ \A p \in DOMAIN source : Count(p, Flatten(emitted)) = 1
  /\ Len(Flatten(emitted)) = Len(source)

\* C17: when the source stream ends, every bucket that still holds pending
\* examples flushes one final batch with its pending examples, so that the
\* bucketed batcher loses and duplicates nothing: the examples of all
\* emitted batches are the examples of the input.
C17_EachBucketFlushesOneFinalBatch ==
  /\ [](pc = "done" => NothingLostOrDuplicated)
  /\ [](pc = "done" => DOMAIN windows = {})
  /\ [][BatchFlush =>
          \E k \in DOMAIN windows :
             /\ emitted' = Append(emitted, windows[k])
             /\ DOMAIN windows' = DOMAIN windows \ {k}]_vars

----------------------------------------------------------------------------
(* inference_pipeline *)

\* _get_output_shapes(dataset): the structure of one sample of
\* dataset.take(1), a dataset of its own; the dataset itself is not read.
_get_output_shapes(c) == c.dataset_structure

\* _inject_index
_inject_index_from_one(index, x) == x @@ [index |-> index + 1]

_inject_index(index, x) == x @@ [index |-> index]

\* _key_func of inference_pipeline
inference_key_func(c, x) ==
  LET length == CallLengthFn(c.length_fn, x.features)
      bucket_id == 0
  IN  IF ~isinstance_list(length)
        THEN Max(bucket_id, FloorDiv(length[2], c.bucket_width[2]))
        ELSE bucket_id

\* "bucket_width is not None and bucket_width > 0"
inference_reorders(c) == c.bucket_width # None /\ c.bucket_width[2] > 0

\* The ValueError _pipeline raises, "" when it raises none.
inference_pipeline_raises(c) ==
  IF inference_reorders(c) /\ c.length_fn = None
    THEN "ValueError: length_fn is required when reordering by length"
  ELSE IF inference_reorders(c) /\ _get_output_shapes(c) # "dict"
    THEN "ValueError: Reordering by length expects dataset elements to be Python dicts"
  ELSE ""

\* _pipeline on one more element x of the dataset, the index-th (from 0).
inference_pipeline(c, w, index, x) ==
  IF inference_reorders(c)
    THEN LET y == _inject_index(index, x)
         IN  group_by_window(w, inference_key_func(c, y), y,
                             c.batch_size, c.batch_size)
    ELSE group_by_window(w, 0, x, c.batch_size, c.batch_size)

InferenceExamples == [features : {<<a>> : a \in Lengths}, ids : {0, 1}]

InferenceConfigs ==
  [batch_size : 1..MaxBatchSize,
   bucket_width : {None, PyInt(0), PyInt(1), PyInt(2)},
   length_fn : {None, LengthFn("scalar"), LengthFn("list")},
   dataset_structure : {"dict", "tuple"}]

InitInference ==
  /\ cfg \in InferenceConfigs
  /\ source = <<>>
  /\ pc = "build"
  /\ err = ""
  /\ stream = <<>>
  /\ pos = 0
  /\ buffer = <<>>
  /\ windows = NoWindows
  /\ emitted = <<>>
  /\ prev = <<>>
  /\ peeks = 0

\* _pipeline(dataset) raises: without length_fn before the sample is taken,
\* on elements that are no dicts after it.
InferenceBuildError ==
  /\ pc = "build"
  /\ inference_pipeline_raises(cfg) # ""
  /\ pc' = "error"
  /\ err' = inference_pipeline_raises(cfg)
  /\ peeks' = IF cfg.length_fn = None THEN peeks ELSE peeks + 1
  /\ UNCHANGED <<cfg, source, stream, pos, buffer, windows, emitted, prev>>

\* _pipeline(dataset) returns the batched dataset; both branches take one
\* sample for the shapes.
InferenceBuild ==
  /\ pc = "build"
  /\ inference_pipeline_raises(cfg) = ""
  /\ pc' = "run"
  /\ peeks' = peeks + 1
  /\ UNCHANGED <<cfg, source, err, stream, pos, buffer, windows, emitted, prev>>

\* The pipeline reads the next element of the dataset.
InferenceElement ==
  /\ pc = "run"
  /\ Len(source) < MaxInferenceInput
  /\ \E x \in InferenceExamples :
       LET r == inference_pipeline(cfg, windows, pos, x)
       IN  /\ source' = Append(source, x)
           /\ pos' = pos + 1
           /\ windows' = r.windows
           /\ emitted' = emitted \o r.out
  /\ UNCHANGED <<cfg, pc, err, stream, buffer, prev, peeks>>

InferenceEndOfInput ==
  /\ pc = "run"
  /\ pc' = "flush"
  /\ UNCHANGED <<cfg, source, err, stream, pos, buffer, windows, emitted, prev, peeks>>

InferenceFlush ==
  /\ pc = "flush"
  /\ \E key \in DOMAIN windows :
       LET r == group_by_window_flush(windows, key, cfg.batch_size)
       IN  /\ windows' = r.windows
           /\ emitted' = emitted \o r.out
  /\ UNCHANGED <<cfg, source, pc, err, stream, pos, buffer, prev, peeks>>

InferenceEnd ==
  /\ pc = "flush"
  /\ DOMAIN windows = {}
  /\ pc' = "done"
  /\ UNCHANGED <<cfg, source, err, stream, pos, buffer, windows, emitted, prev, peeks>>

NextInference ==
  \/ InferenceBuildError
  \/ InferenceBuild
  \/ InferenceElement
  \/ InferenceEndOfInput
  \/ InferenceFlush
  \/ InferenceEnd

SpecInference == InitInference /\ [][NextInference]_vars

\* The elements of all emitted batches, in emission order.
EmittedElements == Flatten(emitted)

\* C2: in the inference pipeline with bucket_width > 0 every input element
\* is in exactly one emitted batch, carries the "index" of its zero-based
\* input position, and the emitted elements sorted by "index" are the input
\* sequence; the shape sample takes nothing from the stream.
C2_InferenceIndexRestoresOrder ==
  (pc = "done" /\ inference_reorders(cfg)) =>
     /\ Len(EmittedElements) = Len(source)
     /\ \A p \in DOMAIN source :
          \E i \in DOMAIN EmittedElements :
             /\ EmittedElements[i] = source[p] @@ [index |-> p - 1]
             /\ \A j \in DOMAIN EmittedElements :
                  EmittedElements[j].index = p - 1 => j = i
     /\ \A i \in DOMAIN emitted : Len(emitted[i]) \in 1..cfg.batch_size

\* Buckets reorder the input: the second element comes out before the
\* first, in a batch of two with the third.
C2_Witness ==
  /\ pc = "done"
  /\ inference_reorders(cfg)
  /\ cfg.batch_size = 2
  /\ Len(source) >= 3
  /\ Len(emitted) >= 2
  /\ Len(emitted[1]) = 2
  /\ emitted[1][1].index = 1
  /\ emitted[1][2].index = 2
  /\ emitted[2][1].index = 0

----------------------------------------------------------------------------
(* filter_irregular_batches, training_pipeline *)

\* _predicate of filter_irregular_batches
filter_irregular_batches_predicate_keeps_all(multiple, batch) == TRUE

filter_irregular_batches_predicate(multiple, batch) == Len(batch) % multiple = 0

\* The transformation applied to the batches that come out of the batcher.
filter_irregular_batches_identity(multiple, batches) == batches

filter_irregular_batches(multiple, batches) ==
  IF multiple = 1
    THEN batches
    ELSE SelectSeq(batches, LAMBDA b : filter_irregular_batches_predicate(multiple, b))

\* dataset.shard(num_shards, shard_index) over a dataset of n elements: the
\* positions this worker reads.
Shard(n, num_shards, shard_index) ==
  SelectSeq([p \in 1..n |-> p], LAMBDA p : (p - 1) % num_shards = shard_index)

\* num_examples of _pipeline, None when dataset_size is not given.
NumExamples(c) ==
  IF c.dataset_size = None THEN None
  ELSE IF c.num_shards > 1 THEN PyInt(c.dataset_size[2] \div c.num_shards)
  ELSE c.dataset_size

\* "shuffle_buffer_size is not None and shuffle_buffer_size != 0"
Shuffles(c) == c.shuffle_buffer_size # None /\ c.shuffle_buffer_size[2] # 0

\* shuffle_size of _pipeline
ShuffleSize_as_configured(c) == c.shuffle_buffer_size[2]

ShuffleSize(c) ==
  IF /\ NumExamples(c) # None
     /\ \/ c.shuffle_buffer_size[2] < 0
        \/ c.shuffle_buffer_size[2] > NumExamples(c)[2]
    THEN NumExamples(c)[2]
    ELSE c.shuffle_buffer_size[2]

\* Whether _pipeline applies random_shard.
UsesRandomShard(c) ==
  /\ Shuffles(c)
  /\ NumExamples(c) # None
  /\ ~(c.shuffle_buffer_size[2] < 0 \/ c.shuffle_buffer_size[2] > NumExamples(c)[2])
  /\ c.shuffle_buffer_size[2] < NumExamples(c)[2]

\* What the stages before the shuffle buffer can deliver in one pass: the
\* worker's shard, through random_shard when it applies.
Upstream(c, n) ==
  LET sharded == IF c.num_shards > 1 THEN Shard(n, c.num_shards, c.shard_index)
                                     ELSE [p \in 1..n |-> p]
  IN  IF UsesRandomShard(c)
        THEN {random_shard(sharded, c.shuffle_buffer_size[2], order) :
                order \in ShuffledOffsets(c.shuffle_buffer_size[2], NumExamples(c)[2])}
        ELSE {sharded}

\* "if not single_pass: dataset = dataset.repeat()"
Repeats_always(c) == TRUE

Repeats(c) == ~c.single_pass

\* The stages after the shuffle on one more element x: the length filter,
\* the batcher and the irregular-batch filter.
training_pipeline(c, w, x, e) ==
  IF filter_examples_by_length(c, e)
    THEN LET r == batch_parallel_dataset(c, w, x, e)
         IN  [r EXCEPT !.out = filter_irregular_batches(c.batch_multiplier, @)]
    ELSE [windows |-> w, out |-> <<>>, error |-> ""]

\* The sizes of the batches of a pass, as a bag: size -> number of batches.
BatchSizes(batches) ==
  [n \in {Len(batches[i]) : i \in DOMAIN batches} |->
     Cardinality({i \in DOMAIN batches : Len(batches[i]) = n})]

\* The examples of the training datasets.
TrainingExamples ==
  {[features |-> <<a>>, labels |-> 1] : a \in Lengths}
    \cup {[features |-> <<1>>, labels |-> 0]}

RECURSIVE SeqsUpTo(_, _)
SeqsUpTo(S, n) ==
  IF n = 0 THEN {<<>>}
  ELSE LET shorter == SeqsUpTo(S, n - 1)
       IN  shorter \cup {Append(q, x) : q \in {t \in shorter : Len(t) = n - 1}, x \in S}

\* The arguments that leave the reading stages at their defaults.
BatchingConfigs ==
  [batch_size : 1..MaxTrainingBatchSize,
   batch_type : {"examples", "tokens", "sentences"},
   batch_multiplier : {1, 2},
   batch_size_multiple : {1, 2},
   bucket_width : {None, PyInt(1), PyInt(2)},
   features_length_fn : {None, LengthFn("scalar"), LengthFn("list")},
   labels_length_fn : {None, LengthFn("scalar")},
   maximum_features_length : {None, PyInt(1)},
   maximum_labels_length : {None},
   single_pass : BOOLEAN,
   dataset_size : {None},
   num_shards : {1},
   shard_index : {0},
   shuffle_buffer_size : {None}]

\* The arguments of the reading stages, over a plain batcher.
ReadingConfigs(n) ==
  {c \in
     [batch_size : {2},
      batch_type : {"examples"},
      batch_multiplier : {1},
      batch_size_multiple : {1},
      bucket_width : {None, PyInt(1)},
      features_length_fn : {LengthFn("scalar")},
      labels_length_fn : {LengthFn("scalar")},
      maximum_features_length : {None},
      maximum_labels_length : {None},
      single_pass : BOOLEAN,
      dataset_size : {None, PyInt(n)},
      num_shards : {1, 2},
      shard_index : {0, 1},
      shuffle_buffer_size : {None} \cup {PyInt(k) : k \in -1..(n + 1)}] :
     c.shard_index < c.num_shards}

InitPipeline ==
  /\ pc = "build"
  /\ err = ""
  /\ stream = <<>>
  /\ pos = 0
  /\ buffer = <<>>
  /\ windows = NoWindows
  /\ emitted = <<>>
  /\ prev = <<>>
  /\ peeks = 0

Init ==
  /\ \/ /\ cfg \in BatchingConfigs
        /\ source \in SeqsUpTo(TrainingExamples, MaxBatchingSource)
     \/ \E n \in 0..MaxReadingSource :
          /\ source = [p \in 1..n |-> [features |-> <<1>>, labels |-> 1]]
          /\ cfg \in ReadingConfigs(n)
  /\ InitPipeline

\* _pipeline(dataset) raises the ValueError of batch_parallel_dataset.
BuildError ==
  /\ pc = "build"
  /\ batch_parallel_dataset_raises(cfg)
  /\ pc' = "error"
  /\ err' = "ValueError"
  /\ UNCHANGED <<cfg, source, stream, pos, buffer, windows, emitted, prev, peeks>>

\* _pipeline(dataset) returns the dataset of batches.
Build ==
  /\ pc = "build"
  /\ ~batch_parallel_dataset_raises(cfg)
  /\ pc' = "start"
  /\ peeks' = IF cfg.bucket_width = None THEN peeks + 1 ELSE peeks
  /\ UNCHANGED <<cfg, source, err, stream, pos, buffer, windows, emitted, prev>>

\* A pass over the dataset starts: dataset.shuffle refuses a buffer size
\* that is not positive.
StartPassError ==
  /\ pc = "start"
  /\ Shuffles(cfg)
  /\ ShuffleSize(cfg) <= 0
  /\ pc' = "error"
  /\ err' = "InvalidArgumentError"
  /\ UNCHANGED <<cfg, source, stream, pos, buffer, windows, emitted, prev, peeks>>

\* A pass over the dataset starts: the shuffle of the shard offsets settles
\* what the reading stages deliver.
StartPass ==
  /\ pc = "start"
  /\ ~(Shuffles(cfg) /\ ShuffleSize(cfg) <= 0)
  /\ stream' \in Upstream(cfg, Len(source))
  /\ pos' = 0
  /\ pc' = "read"
  /\ UNCHANGED <<cfg, source, err, buffer, windows, emitted, prev, peeks>>

\* dataset.shuffle fills its buffer.
ShuffleFill ==
  /\ pc = "read"
  /\ Shuffles(cfg)
  /\ pos < Len(stream)
  /\ Len(buffer) < ShuffleSize(cfg)
  /\ buffer' = Append(buffer, stream[pos + 1])
  /\ pos' = pos + 1
  /\ UNCHANGED <<cfg, source, pc, err, stream, windows, emitted, prev, peeks>>

\* The pipeline after the shuffle takes element x.
Feed(x) ==
  LET r == training_pipeline(cfg, windows, x, source[x])
  IN  /\ cfg' = MaximaAfter(cfg, source[x])
      /\ windows' = r.windows
      /\ emitted' = emitted \o r.out
      /\ err' = r.error
      /\ pc' = IF r.error = "" THEN "read" ELSE "error"

\* dataset.shuffle hands over a random element of its full buffer, or of
\* what is left in it once its input is exhausted.
ShufflePick ==
  /\ pc = "read"
  /\ Shuffles(cfg)
  /\ buffer # <<>>
  /\ Len(buffer) >= ShuffleSize(cfg) \/ pos = Len(stream)
  /\ \E i \in DOMAIN buffer :
       /\ buffer' = SubSeq(buffer, 1, i - 1) \o SubSeq(buffer, i + 1, Len(buffer))
       /\ Feed(buffer[i])
  /\ UNCHANGED <<source, stream, pos, prev, peeks>>

\* Without shuffle the next element is read in order.
Pull ==
  /\ pc = "read"
  /\ ~Shuffles(cfg)
  /\ pos < Len(stream)
  /\ pos' = pos + 1
  /\ Feed(stream[pos + 1])
  /\ UNCHANGED <<source, stream, buffer, prev, peeks>>

\* The input of the batcher is exhausted.
EndOfInput ==
  /\ pc = "read"
  /\ pos = Len(stream)
  /\ buffer = <<>>
  /\ pc' = "flush"
  /\ UNCHANGED <<cfg, source, err, stream, pos, buffer, windows, emitted, prev, peeks>>

\* An open window (the open batch of batch_dataset) is reduced and goes
\* through the irregular-batch filter.
Flush ==
  /\ pc = "flush"
  /\ \E key \in DOMAIN windows :
       LET r == group_by_window_flush(windows, key, ScaledBatchSize(cfg))
       IN  /\ windows' = r.windows
           /\ emitted' = emitted \o filter_irregular_batches(cfg.batch_multiplier, r.out)
  /\ UNCHANGED <<cfg, source, pc, err, stream, pos, buffer, prev, peeks>>

\* The pass is over and the pipeline with it: single_pass, or a pass of
\* dataset.repeat() that gave no batch at all.
EndOfSequence ==
  /\ pc = "flush"
  /\ DOMAIN windows = {}
  /\ ~Repeats(cfg) \/ emitted = <<>>
  /\ pc' = "done"
  /\ UNCHANGED <<cfg, source, err, stream, pos, buffer, windows, emitted, prev, peeks>>

\* dataset.repeat(): the next pass starts.
Repeat ==
  /\ pc = "flush"
  /\ DOMAIN windows = {}
  /\ Repeats(cfg)
  /\ emitted # <<>>
  /\ pc' = "start"
  /\ prev' = BatchSizes(emitted)
  /\ emitted' = <<>>
  /\ stream' = <<>>
  /\ pos' = 0
  /\ UNCHANGED <<cfg, source, err, buffer, windows, peeks>>

Next ==
  \/ BuildError
  \/ Build
  \/ StartPassError
  \/ StartPass
  \/ ShuffleFill
  \/ ShufflePick
  \/ Pull
  \/ EndOfInput
  \/ Flush
  \/ EndOfSequence
  \/ Repeat

Spec == Init /\ [][Next]_vars

\* C1: in the training pipeline with batch_size_multiple m > 1 every
\* emitted batch has a size divisible by m; a tail batch whose size is not
\* divisible by m is dropped and never emitted.  (Stated for a single pass
\* of the bucketed "tokens" batcher, the case batch_size_multiple is
\* documented for, and a batch_size of at least m.)
C1_BatchSizeMultiple ==
  ( /\ cfg.batch_size_multiple > 1
    /\ cfg.batch_size >= cfg.batch_size_multiple
    /\ cfg.batch_type = "tokens"
    /\ cfg.bucket_width # None
    /\ cfg.single_pass ) =>
     \A i \in DOMAIN emitted : Len(emitted[i]) % cfg.batch_size_multiple = 0

\* The positions of the base dataset this worker reads.
WorkerShard ==
  {p \in DOMAIN source : (p - 1) % cfg.num_shards = cfg.shard_index}

\* C6: with single_pass=True the training pipeline emits each example of
\* the worker's shard exactly once across all emitted batches, whatever
\* shuffle_buffer_size, dataset_size and num_shards, when the length filter
\* rejects nothing and batch_multiplier is 1.  (Stated for num_shards = 1,
\* where the worker's shard is the whole source.)
C6_SinglePassExactlyOnce ==
  ( /\ pc = "done"
    /\ cfg.num_shards = 1
    /\ cfg.single_pass
    /\ cfg.batch_multiplier = 1
    /\ \A p \in DOMAIN source : filter_examples_by_length(cfg, source[p]) ) =>
     /\ \A p \in WorkerShard : Count(p, Flatten(emitted)) = 1
     /\ \A p \in DOMAIN source \ WorkerShard : Count(p, Flatten(emitted)) = 0

\* C8 (training part): the training pipeline fails on an unknown batch_type
\* with an invalid-configuration error raised when the pipeline is
\* constructed, before any element of the source is consumed.
C8_UnknownBatchTypeFailsEagerly ==
  (cfg.batch_type \notin {"examples", "tokens"} /\ pc # "build") =>
     (pc = "error" /\ err = "ValueError" /\ pos = 0 /\ emitted = <<>>)

\* C15 as claimed: shuffle_buffer_size = 0 or unset applies no shuffle; a negative
\* shuffle_buffer_size, or one >= the dataset size, gives a full shuffle:
\* the shuffle stage runs with a buffer that holds every example this worker
\* reads (its whole shard when num_shards > 1), whether or not dataset_size
\* is given.
C15_FullShuffleHoldsWholeShard ==
  /\ ~Shuffles(cfg) => buffer = <<>>
  /\ ( /\ source # <<>>
       /\ cfg.shuffle_buffer_size # None
       /\ \/ cfg.shuffle_buffer_size[2] < 0
          \/ cfg.shuffle_buffer_size[2] >= Len(source)
       /\ pc \notin {"build", "start"} ) =>
       /\ err # "InvalidArgumentError"
       /\ ShuffleSize(cfg) >= Cardinality(WorkerShard)

\* The elements the shuffle stage has handed on in this pass.
LeftShuffle == pos - Len(buffer)

\* The shuffle stage works with a buffer of n elements: it never holds
\* more, and hands nothing on before it holds n or its input is exhausted.
ShuffleBufferOf(n) ==
  /\ Len(buffer) <= n
  /\ (pc = "read" /\ LeftShuffle > 0 /\ pos < Len(stream)) => Len(buffer) >= n - 1

\* C15 as amended: shuffle_buffer_size = 0 or unset applies no shuffle.
\* With dataset_size given, a negative shuffle_buffer_size, or one >=
\* num_examples = dataset_size // num_shards, makes the shuffle stage run
\* with a buffer of num_examples elements, accepted when num_examples >= 1;
\* this is a full shuffle of the worker's shard when num_shards divides
\* dataset_size.  With dataset_size not given the shuffle stage gets
\* shuffle_buffer_size as it is, and refuses a negative one.
C15_ShuffleBufferIsNumExamples ==
  /\ ~Shuffles(cfg) => buffer = <<>>
  /\ (cfg.shuffle_buffer_size # None /\ cfg.dataset_size # None) =>
       LET size == cfg.shuffle_buffer_size[2]
           n == cfg.dataset_size[2] \div cfg.num_shards
       IN  (size # 0 /\ (size < 0 \/ size >= n)) =>
             /\ n >= 1 => err # "InvalidArgumentError"
             /\ ShuffleBufferOf(n)
             /\ ( /\ n * cfg.num_shards = cfg.dataset_size[2]
                  /\ pc = "read"
                  /\ LeftShuffle > 0 ) => pos = Cardinality(WorkerShard)
  /\ (cfg.shuffle_buffer_size # None /\ cfg.dataset_size = None) =>
       LET size == cfg.shuffle_buffer_size[2]
       IN  /\ (size < 0 /\ pc \notin {"build", "start"}) =>
                (pc = "error" /\ err = "InvalidArgumentError" /\ emitted = <<>>)
           /\ size > 0 => (err # "InvalidArgumentError" /\ ShuffleBufferOf(size))

\* A negative shuffle_buffer_size with dataset_size given: the buffer holds
\* the whole shard of the second of two workers before anything leaves it.
C15_Witness ==
  /\ cfg.shuffle_buffer_size = PyInt(-1)
  /\ cfg.dataset_size = PyInt(4)
  /\ cfg.num_shards = 2
  /\ cfg.shard_index = 1
  /\ pc = "read"
  /\ buffer = <<2, 4>>
  /\ pos = Len(stream)

\* C19: every batch the training pipeline emits is non-empty and has a size
\* divisible by batch_multiplier, in examples mode and in tokens mode, with
\* or without bucketing, the batches flushed at the end of a pass included;
\* and no example of an emitted batch violates the length constraints.
C19_BatchesRegularAndWithinLengths ==
  \A i \in DOMAIN emitted :
     /\ Len(emitted[i]) >= 1
     /\ Len(emitted[i]) % cfg.batch_multiplier = 0
     /\ \A j \in DOMAIN emitted[i] :
          /\ SideWithin(cfg.features_length_fn, source[emitted[i][j]].features,
                        cfg.maximum_features_length)
          /\ SideWithin(cfg.labels_length_fn, <<source[emitted[i][j]].labels>>,
                        cfg.maximum_labels_length)

\* A pass in tokens mode over three examples the length filter keeps: a
\* batch of two is emitted and the batch of one flushed at the end is
\* dropped for its size.
C19_Witness ==
  /\ cfg.batch_type = "tokens"
  /\ cfg.bucket_width = PyInt(2)
  /\ cfg.batch_multiplier = 2
  /\ cfg.features_length_fn = LengthFn("scalar")
  /\ cfg.single_pass
  /\ pc = "done"
  /\ Len(source) = 3
  /\ \A p \in DOMAIN source : filter_examples_by_length(cfg, source[p])
  /\ emitted = <<<<1, 2>>>>

\* C20: in the training pipeline in tokens mode with bucket_width = 1 the
\* window size computation never divides by zero: every example that
\* reaches the bucketed batcher has a bucket key >= 1, whichever of
\* features_length_fn and labels_length_fn are set (list-valued features
\* lengths included).
C20_NoDivisionByZeroAtWidthOne ==
  (cfg.batch_type = "tokens" /\ cfg.bucket_width = PyInt(1)) =>
     /\ err # DivisionByZero[1]
     /\ \A k \in DOMAIN windows : k >= 1
     /\ \A i \in DOMAIN emitted : _key_func(cfg, source[emitted[i][1]]) >= 1

----------------------------------------------------------------------------
(* The training pipeline under a consumer that keeps asking for batches. *)

InitLive ==
  /\ \/ /\ cfg \in {c \in BatchingConfigs :
                       /\ c.batch_size_multiple = 1
                       /\ c.features_length_fn # LengthFn("list")}
        /\ source \in SeqsUpTo(TrainingExamples, MaxLiveSource)
     \/ \E n \in 0..(MaxLiveSource + 1) :
          /\ source = [p \in 1..n |-> [features |-> <<1>>, labels |-> 1]]
          /\ cfg \in ReadingConfigs(n)
  /\ InitPipeline

\* The consumer pulls on: a step that can be taken is taken.
SpecLive == InitLive /\ [][Next]_vars /\ WF_vars(Next)

\* A step that hands at least one batch to the consumer.
EmitsBatch == Len(emitted') > Len(emitted)

Ended == pc \in {"done", "error"}

\* C5 as claimed: with single_pass=True the pipeline ends after finitely
\* many batches; with single_pass=False the batch sequence never ends and
\* batches keep being emitted.  (Stated for a source that is not empty and
\* for the runs in which no stage raises an error.)
C5_SinglePassEndsRepeatNeverEnds ==
  /\ cfg.single_pass => <>Ended
  /\ (~cfg.single_pass /\ source # <<>>) =>
       ([]<><<EmitsBatch>>_vars \/ <>(pc = "error"))

\* C5 as amended: with single_pass=False batches keep being emitted once a
\* pass has given a batch; when the first pass gives none the sequence ends
\* without a batch; every pass gives batches of the same sizes as the
\* pass before it.
C5_RepeatNeverEndsOnceABatchIsEmitted ==
  /\ cfg.single_pass => <>Ended
  /\ ~cfg.single_pass =>
       \/ []<><<EmitsBatch>>_vars
       \/ <>Ended /\ [](emitted = <<>> /\ prev = <<>>)
  /\ [][(Repeat /\ prev # <<>>) => BatchSizes(emitted) = prev]_vars

\* The second pass of a repeated, shuffled dataset has emitted a batch.
C5_Witness ==
  /\ ~cfg.single_pass
  /\ Shuffles(cfg)
  /\ prev # <<>>
  /\ emitted # <<>>
  /\ pc = "flush"

----------------------------------------------------------------------------
(* filter_irregular_batches alone, over a stream of batches.  The i-th     *)
(* batch of the stream is i repeated as many times as the batch is large.  *)

InitIrregular ==
  /\ cfg \in [multiple : 1..MaxMultiple]
  /\ source = <<>>
  /\ pc = "filter"
  /\ err = ""
  /\ stream = <<>>
  /\ pos = 0
  /\ buffer = <<>>
  /\ windows = <<>>
  /\ emitted = <<>>
  /\ prev = <<>>
  /\ peeks = 0

\* dataset.apply(filter_irregular_batches(multiple)) reads the next batch.
IrregularBatch ==
  /\ pc = "filter"
  /\ Len(source) < MaxIrregularInput
  /\ \E size \in 1..MaxIrregularSize :
       LET batch == [j \in 1..size |-> pos + 1]
       IN  /\ source' = Append(source, batch)
           /\ pos' = pos + 1
           /\ emitted' = emitted \o filter_irregular_batches(cfg.multiple, <<batch>>)
  /\ UNCHANGED <<cfg, pc, err, stream, buffer, windows, prev, peeks>>

NextIrregular == IrregularBatch

SpecIrregular == InitIrregular /\ [][NextIrregular]_vars

\* C11: filter_irregular_batches(multiple) with multiple > 1 yields exactly
\* the batches whose size is divisible by multiple, in the order of the
\* input; with multiple = 1 it yields the input stream unchanged.
C11_IrregularKeepsDivisibleInOrder ==
  pc = "filter" =>
    /\ \A i \in DOMAIN source :
         Count(source[i], emitted) =
           (IF Len(source[i]) % cfg.multiple = 0 THEN 1 ELSE 0)
    /\ \A j \in DOMAIN emitted : InSeq(emitted[j], source)
    /\ \A j1, j2 \in DOMAIN emitted :
         j1 < j2 => emitted[j1][1] < emitted[j2][1]
    /\ cfg.multiple = 1 => emitted = source

\* A batch was dropped between two batches that were kept.
C11_Witness ==
  /\ pc = "filter"
  /\ cfg.multiple = 2
  /\ Len(source) >= 3
  /\ Len(source[1]) = 2 /\ Len(source[2]) = 3 /\ Len(source[3]) = 4
  /\ emitted = <<source[1], source[3]>>

----------------------------------------------------------------------------
(* _window_size_func alone: group_by_window calls it once for every bucket *)
(* key it meets, in the order the keys turn up.                            *)

WindowConfigs ==
  [batch_size : (1..MaxWindowBatchSize) \cup {100},
   batch_type : {"tokens"},
   batch_multiplier : {1, 2},
   batch_size_multiple : {1, 2, 3},
   bucket_width : {PyInt(1), PyInt(2), PyInt(10)}]

InitWindow ==
  /\ cfg \in WindowConfigs
  /\ source = <<>>
  /\ pc = "window"
  /\ err = ""
  /\ stream = <<>>
  /\ pos = 0
  /\ buffer = <<>>
  /\ windows = NoWindows
  /\ emitted = <<>>
  /\ prev = <<>>
  /\ peeks = 0

\* _window_size_func(key) is called for a key met for the first time; its
\* result is kept under the key.
WindowSizeCall ==
  /\ pc = "window"
  /\ \E key \in (0..MaxKey) \ DOMAIN windows :
       windows' = [k \in DOMAIN windows \cup {key} |->
                     IF k = key THEN WindowSize(cfg, key) ELSE windows[k]]
  /\ UNCHANGED <<cfg, source, pc, err, stream, pos, buffer, emitted, prev, peeks>>

NextWindow == WindowSizeCall

SpecWindow == InitWindow /\ [][NextWindow]_vars

\* The keys whose window size is a number.
SizedKeys == {k \in DOMAIN windows : windows[k] # DivisionByZero}

\* C12: in tokens mode the window size of key k is raw = floor(batch_size /
\* (k' * bucket_width)), k' = k + 1 when bucket_width > 1 and k otherwise,
\* rounded up to the smallest multiple of R = batch_multiplier *
\* batch_size_multiple that is >= raw (raw itself when it is a multiple of
\* R), and never less than R.
C12_WindowRoundedUpToMultiple ==
  \A k \in SizedKeys :
     LET R == cfg.batch_multiplier * cfg.batch_size_multiple
         k1 == IF cfg.bucket_width[2] > 1 THEN k + 1 ELSE k
         raw == (cfg.batch_size * cfg.batch_multiplier) \div (k1 * cfg.bucket_width[2])
     IN  windows[k] = PyInt(Max(R, CeilDiv(raw, R) * R))

\* C18: in tokens mode the window size does not increase as the bucket key
\* increases; with batch_size=100, bucket_width=10, batch_multiplier=1 and
\* batch_size_multiple=1 it is 10 for key 0 and 5 for key 1.
C18_WindowNonIncreasingInKey ==
  /\ \A k1, k2 \in SizedKeys : k1 < k2 => windows[k2][2] <= windows[k1][2]
  /\ ( /\ cfg.batch_size = 100 /\ cfg.bucket_width = PyInt(10)
       /\ cfg.batch_multiplier = 1 /\ cfg.batch_size_multiple = 1 ) =>
       /\ 0 \in DOMAIN windows => windows[0] = PyInt(10)
       /\ 1 \in DOMAIN windows => windows[1] = PyInt(5)

\* The window sizes of the keys 0, 1 and 2 of the documented case are
\* computed, and they decrease strictly.
C18_Witness ==
  /\ cfg.batch_size = 100 /\ cfg.bucket_width = PyInt(10)
  /\ cfg.batch_multiplier = 1 /\ cfg.batch_size_multiple = 1
  /\ {0, 1, 2} \subseteq SizedKeys
  /\ windows[2][2] < windows[1][2]
  /\ windows[1][2] < windows[0][2]

----------------------------------------------------------------------------
(* batch_dataset alone, with the contents of the elements.  An element has *)
(* two fields, each a sequence of tokens; the tokens of the p-th element   *)
(* are all p, so that a padded row shows where it comes from.  The shape   *)
(* of a field is its extent: an int when it is static, None when it is     *)
(* not.                                                                    *)

\* The shapes of an element: the extent of each of its two fields.
Shapes(features, labels) == <<"shapes", features, labels>>

\* One sequence right-padded with zeros to `extent`.
Pad(x, extent) == [j \in 1..extent |-> IF j <= Len(x) THEN x[j] ELSE 0]

\* "padded_shapes or _get_output_shapes(dataset)"
PaddedShapes(c) ==
  IF c.padded_shapes # None THEN c.padded_shapes ELSE _get_output_shapes(c)

\* The extent padded_batch gives a field in the batch `rows`: the one asked
\* for, the largest of the batch for an extent of None.
Extent(shape, rows, f) ==
  IF shape = None
    THEN LET ls == {Len(rows[i][f]) : i \in DOMAIN rows}
         IN  CHOOSE m \in ls : \A n \in ls : n <= m
    ELSE shape[2]

\* dataset.padded_batch on the elements of one batch: the padded batch, or
\* the error of an element longer than the extent asked for.
padded_batch_unpadded(c, rows) == [out |-> rows, error |-> ""]

padded_batch(c, rows) ==
  LET shapes == PaddedShapes(c)
      fe == Extent(shapes[2], rows, "features")
      le == Extent(shapes[3], rows, "labels")
  IN  IF \E i \in DOMAIN rows :
            Len(rows[i].features) > fe \/ Len(rows[i].labels) > le
        THEN [out |-> <<>>, error |-> "DataLossError"]
        ELSE [out |-> [i \in DOMAIN rows |->
                         [features |-> Pad(rows[i].features, fe),
                          labels |-> Pad(rows[i].labels, le)]],
              error |-> ""]

PadLengths == {0, 3, 5}

\* The elements a dataset of the static shapes `structure` can hold, as the
\* index-th element (from 1).
PadElements(structure, index) ==
  {[features |-> [j \in 1..a |-> index], labels |-> [j \in 1..b |-> index]] :
     a \in {n \in PadLengths : structure[2] \in {None, PyInt(n)}},
     b \in {n \in {1, 3} : structure[3] \in {None, PyInt(n)}}}

PadConfigs ==
  [batch_size : 1..MaxPadBatchSize,
   padded_shapes : {None, Shapes(PyInt(3), None)},
   dataset_structure : {Shapes(None, None), Shapes(PyInt(3), None)}]

InitPad ==
  /\ cfg \in PadConfigs
  /\ source = <<>>
  /\ pc = "build"
  /\ err = ""
  /\ stream = <<>>
  /\ pos = 0
  /\ buffer = <<>>
  /\ windows = NoWindows
  /\ emitted = <<>>
  /\ prev = <<>>
  /\ peeks = 0

\* The transformation is applied to the dataset: the shapes are sampled
\* when no padded_shapes is given.
PadBuild ==
  /\ pc = "build"
  /\ pc' = "run"
  /\ peeks' = IF cfg.padded_shapes # None THEN peeks ELSE peeks + 1
  /\ UNCHANGED <<cfg, source, err, stream, pos, buffer, windows, emitted, prev>>

\* The batched dataset reads the next element; a full batch is padded and
\* comes out.
PadElement ==
  /\ pc = "run"
  /\ Len(source) < MaxPadInput
  /\ \E x \in PadElements(cfg.dataset_structure, pos + 1) :
       LET q == Append(buffer, x)
           full == Len(q) >= cfg.batch_size
           r == padded_batch(cfg, Head(batch_dataset(cfg.batch_size, q)))
       IN  /\ source' = Append(source, x)
           /\ pos' = pos + 1
           /\ buffer' = IF full THEN <<>> ELSE q
           /\ emitted' = IF full /\ r.error = "" THEN Append(emitted, r.out)
                                                  ELSE emitted
           /\ err' = IF full THEN r.error ELSE err
           /\ pc' = IF full /\ r.error # "" THEN "error" ELSE "run"
  /\ UNCHANGED <<cfg, stream, windows, prev, peeks>>

\* The dataset ends: the elements of the open batch come out as the last,
\* shorter batch.
PadEndOfInput ==
  /\ pc = "run"
  /\ LET bs == batch_dataset(cfg.batch_size, buffer)
         r == IF bs = <<>> THEN [out |-> <<>>, error |-> ""]
                           ELSE padded_batch(cfg, Head(bs))
     IN  /\ emitted' = IF bs # <<>> /\ r.error = "" THEN Append(emitted, r.out)
                                                     ELSE emitted
         /\ err' = r.error
         /\ pc' = IF r.error # "" THEN "error" ELSE "done"
  /\ buffer' = <<>>
  /\ UNCHANGED <<cfg, source, stream, pos, windows, prev, peeks>>

NextPad == PadBuild \/ PadElement \/ PadEndOfInput

SpecPad == InitPad /\ [][NextPad]_vars

\* The element of the source the i-th row of the b-th batch is made of.
RowSource(b, i) == source[(b - 1) * cfg.batch_size + i]

\* The largest length of field f among the elements of the b-th batch.
LongestInBatch(b, f) ==
  LET ls == {Len(RowSource(b, i)[f]) : i \in DOMAIN emitted[b]}
  IN  CHOOSE m \in ls : \A n \in ls : n <= m

\* Row `row` is the sequence x followed by zeros up to `extent`.
IsRightPadded(row, x, extent) ==
  /\ Len(row) = extent
  /\ \A j \in 1..extent : row[j] = (IF j <= Len(x) THEN x[j] ELSE 0)

\* C14: batch_dataset(batch_size) groups the stream into batches of exactly
\* batch_size consecutive elements in input order, only the final batch
\* being possibly shorter and never empty, and right-pads each field of each
\* element with zeros to the largest length of that field within the batch.
C14_BatchesConsecutivePaddedToLongest ==
  (cfg.padded_shapes = None /\ pc # "build") =>
    /\ pc # "error"
    /\ \A b \in DOMAIN emitted :
         /\ Len(emitted[b]) >= 1
         /\ (b < Len(emitted) \/ pc = "run") => Len(emitted[b]) = cfg.batch_size
         /\ Len(emitted[b]) <= cfg.batch_size
         /\ \A i \in DOMAIN emitted[b] :
              /\ IsRightPadded(emitted[b][i].features, RowSource(b, i).features,
                               LongestInBatch(b, "features"))
              /\ IsRightPadded(emitted[b][i].labels, RowSource(b, i).labels,
                               LongestInBatch(b, "labels"))
    /\ pc = "run" =>
         Len(emitted) * cfg.batch_size + Len(buffer) = Len(source)
    /\ pc = "done" =>
         /\ Len(emitted) = CeilDiv(Len(source), cfg.batch_size)
         /\ Len(Flatten(emitted)) = Len(source)

\* Two examples of lengths 3 and 5 share a batch: its extent is 5 and the
\* last two slots of the shorter row are zero; the final batch is shorter.
C14_Witness ==
  /\ cfg.padded_shapes = None
  /\ cfg.batch_size = 2
  /\ pc = "done"
  /\ Len(emitted) = 2
  /\ Len(emitted[2]) = 1
  /\ Len(source[1].features) = 3
  /\ Len(source[2].features) = 5
  /\ emitted[1][1].features = <<1, 1, 1, 0, 0>>
  /\ emitted[1][2].features = <<2, 2, 2, 2, 2>>

====
